---- MODULE Spec2Model ----
(***************************************************************************)
(* Verification model of the go_libraries_examples repository.             *)
(*                                                                         *)
(* Part I models the Viper configuration demo (Viper/main.go): the layers  *)
(* it feeds to the configuration library (defaults, config file,           *)
(* environment, command-line flags), the global Config struct it decodes   *)
(* into, its sub-commands (root demo, show, validate, watch, env-demo) and *)
(* the hot-reload callback.                                                *)
(*                                                                         *)
(* Go strings are TLA+ strings; Len, SubSeq and \o act on them as Go's     *)
(* len, slicing and + do (the bounded inputs are ASCII, so bytes and       *)
(* characters coincide).  time.Duration values are counted in seconds.     *)
(***************************************************************************)
EXTENDS Integers, Sequences, FiniteSets, TLC

(***************************************************************************)
(* Bounds                                                                  *)
(***************************************************************************)
\* at most this many flags (--config and the per-field overrides) are passed
\* on one command line
MaxFlags == 1
\* at most this many VIPERAPP_* environment variables are set
MaxEnvVars == 1
\* at most this many file edits are observed by one watch session
MaxEdits == 2
\* longest secret handed to maskPassword in the exhaustive masking check
MaxMaskLen == 6
\* records a demo server's store holds at most in the runs explored
MaxRecords == 3
\* create-todo requests accepted in the runs explored
MaxCreates == 2

(***************************************************************************)
(* Untyped values held by the layers, and typed values held by Config.     *)
(* One record shape for all of them: k is the kind, n the number (int,     *)
(* bool as 0/1, duration in seconds), s the string, l the list of strings. *)
(***************************************************************************)
VInt(i)  == [k |-> "int",  n |-> i, s |-> "", l |-> <<>>]
VStr(t)  == [k |-> "str",  n |-> 0, s |-> t,  l |-> <<>>]
VBool(b) == [k |-> "bool", n |-> IF b THEN 1 ELSE 0, s |-> "", l |-> <<>>]
VDur(i)  == [k |-> "dur",  n |-> i, s |-> "", l |-> <<>>]
VList(q) == [k |-> "list", n |-> 0, s |-> "", l |-> q]
\* a JSON number as its parser yields it (float64); whole numbers only
VFloat(i) == [k |-> "float", n |-> i, s |-> "", l |-> <<>>]

\* the empty mapping (a layer that defines no key)
EmptyLayer == [x \in {} |-> VInt(0)]


(***************************************************************************)
(* Go string helpers                                                       *)
(***************************************************************************)
CharAt(str, i) == SubSeq(str, i, i)

\* strings.Repeat(c, n)
RECURSIVE Repeat(_, _)
Repeat(c, n) == IF n <= 0 THEN "" ELSE c \o Repeat(c, n - 1)

\* strings.ToUpper / strings.ToLower on one ASCII character
UpperChar(c) ==
  CASE c = "a" -> "A" [] c = "b" -> "B" [] c = "c" -> "C" [] c = "d" -> "D"
    [] c = "e" -> "E" [] c = "f" -> "F" [] c = "g" -> "G" [] c = "h" -> "H"
    [] c = "i" -> "I" [] c = "j" -> "J" [] c = "k" -> "K" [] c = "l" -> "L"
    [] c = "m" -> "M" [] c = "n" -> "N" [] c = "o" -> "O" [] c = "p" -> "P"
    [] c = "q" -> "Q" [] c = "r" -> "R" [] c = "s" -> "S" [] c = "t" -> "T"
    [] c = "u" -> "U" [] c = "v" -> "V" [] c = "w" -> "W" [] c = "x" -> "X"
    [] c = "y" -> "Y" [] c = "z" -> "Z" [] OTHER -> c

LowerChar(c) ==
  CASE c = "A" -> "a" [] c = "B" -> "b" [] c = "C" -> "c" [] c = "D" -> "d"
    [] c = "E" -> "e" [] c = "F" -> "f" [] c = "G" -> "g" [] c = "H" -> "h"
    [] c = "I" -> "i" [] c = "J" -> "j" [] c = "K" -> "k" [] c = "L" -> "l"
    [] c = "M" -> "m" [] c = "N" -> "n" [] c = "O" -> "o" [] c = "P" -> "p"
    [] c = "Q" -> "q" [] c = "R" -> "r" [] c = "S" -> "s" [] c = "T" -> "t"
    [] c = "U" -> "u" [] c = "V" -> "v" [] c = "W" -> "w" [] c = "X" -> "x"
    [] c = "Y" -> "y" [] c = "Z" -> "z" [] OTHER -> c

RECURSIVE ToLower(_)
ToLower(str) ==
  IF str = "" THEN "" ELSE LowerChar(CharAt(str, 1)) \o ToLower(SubSeq(str, 2, Len(str)))

\* strings.Contains(str, sub)
Contains(str, sub) ==
  \E i \in 1..(Len(str) - Len(sub) + 1) : SubSeq(str, i, i + Len(sub) - 1) = sub

\* strings.ToUpper(strings.NewReplacer(".", "_").Replace(key)): the name part
\* of the environment variable AutomaticEnv consults for a key
RECURSIVE EnvKeyReplace(_)
EnvKeyReplace(key) ==
  IF key = "" THEN ""
  ELSE (IF CharAt(key, 1) = "." THEN "_" ELSE UpperChar(CharAt(key, 1)))
         \o EnvKeyReplace(SubSeq(key, 2, Len(key)))

\* --env-prefix, left at its flag default
envPrefix == "VIPERAPP"

EnvName(key) == envPrefix \o "_" \o EnvKeyReplace(key)


(***************************************************************************)
(* The typed shape: one entry per leaf field of type Config, keyed by the  *)
(* dot path of its mapstructure tags, with the field's Go type.            *)
(***************************************************************************)
ServerFields ==
  [f \in {"server.host", "server.tls.cert_file", "server.tls.key_file"} |-> "str"]
  @@ [f \in {"server.port", "server.max_connections"} |-> "int"]
  @@ [f \in {"server.read_timeout", "server.write_timeout"} |-> "dur"]
  @@ [f \in {"server.tls.enabled"} |-> "bool"]

DatabaseFields ==
  [f \in {"database.driver", "database.host", "database.username",
          "database.password", "database.database", "database.ssl_mode"} |-> "str"]
  @@ [f \in {"database.port", "database.max_connections"} |-> "int"]
  @@ [f \in {"database.max_idle_time", "database.conn_max_lifetime"} |-> "dur"]

RedisFields ==
  [f \in {"redis.host", "redis.password"} |-> "str"]
  @@ [f \in {"redis.port", "redis.database", "redis.pool_size"} |-> "int"]

LoggingFields ==
  [f \in {"logging.level", "logging.format", "logging.output"} |-> "str"]
  @@ [f \in {"logging.max_size", "logging.max_backups", "logging.max_age"} |-> "int"]
  @@ [f \in {"logging.compress"} |-> "bool"]

FeatureFields ==
  [f \in {"features.enable_metrics", "features.enable_tracing",
          "features.enable_profiling", "features.enable_caching",
          "features.beta_features"} |-> "bool"]

SecurityFields ==
  [f \in {"security.jwt_secret", "security.csrf_secret"} |-> "str"]
  @@ [f \in {"security.jwt_expiration"} |-> "dur"]
  @@ [f \in {"security.rate_limit_rps", "security.rate_limit_burst"} |-> "int"]
  @@ [f \in {"security.cors_origins"} |-> "list"]
  @@ [f \in {"security.enable_https_only"} |-> "bool"]

FieldType ==
  ServerFields @@ DatabaseFields @@ RedisFields @@ LoggingFields
    @@ FeatureFields @@ SecurityFields

Fields == DOMAIN FieldType

\* the fields the schema marks secret
SecretFields ==
  {"database.password", "redis.password", "security.jwt_secret", "security.csrf_secret"}

\* Go's zero value of a field type: the value of the package-level
\* `config` before anything is decoded into it
ZeroOf(ty) ==
  CASE ty = "str"  -> VStr("")
    [] ty = "int"  -> VInt(0)
    [] ty = "bool" -> VBool(FALSE)
    [] ty = "dur"  -> VDur(0)
    [] ty = "list" -> VList(<<>>)

ZeroConfig == [f \in Fields |-> ZeroOf(FieldType[f])]

(***************************************************************************)
(* setDefaults: the defaults layer, section by section.                    *)
(***************************************************************************)
ServerDefaults ==
  "server.host" :> VStr("localhost") @@ "server.port" :> VInt(8080)
  @@ "server.read_timeout" :> VStr("30s") @@ "server.write_timeout" :> VStr("30s")
  @@ "server.max_connections" :> VInt(1000)
  @@ "server.tls.enabled" :> VBool(FALSE)
  @@ "server.tls.cert_file" :> VStr("") @@ "server.tls.key_file" :> VStr("")

DatabaseDefaults ==
  "database.driver" :> VStr("postgres") @@ "database.host" :> VStr("localhost")
  @@ "database.port" :> VInt(5432) @@ "database.username" :> VStr("user")
  @@ "database.password" :> VStr("password") @@ "database.database" :> VStr("myapp")
  @@ "database.ssl_mode" :> VStr("disable") @@ "database.max_connections" :> VInt(25)
  @@ "database.max_idle_time" :> VStr("15m")
  @@ "database.conn_max_lifetime" :> VStr("1h")

\* mutant of RedisDefaults: the redis.pool_size default is forgotten
RedisDefaultsNoPoolSize ==
  "redis.host" :> VStr("localhost") @@ "redis.port" :> VInt(6379)
  @@ "redis.password" :> VStr("") @@ "redis.database" :> VInt(0)

RedisDefaults ==
  "redis.host" :> VStr("localhost") @@ "redis.port" :> VInt(6379)
  @@ "redis.password" :> VStr("") @@ "redis.database" :> VInt(0)
  @@ "redis.pool_size" :> VInt(10)

LoggingDefaults ==
  "logging.level" :> VStr("info") @@ "logging.format" :> VStr("json")
  @@ "logging.output" :> VStr("stdout") @@ "logging.max_size" :> VInt(100)
  @@ "logging.max_backups" :> VInt(3) @@ "logging.max_age" :> VInt(7)
  @@ "logging.compress" :> VBool(TRUE)

FeatureDefaults ==
  "features.enable_metrics" :> VBool(TRUE) @@ "features.enable_tracing" :> VBool(FALSE)
  @@ "features.enable_profiling" :> VBool(FALSE)
  @@ "features.enable_caching" :> VBool(TRUE)
  @@ "features.beta_features" :> VBool(FALSE)

SecurityDefaults ==
  "security.jwt_secret" :> VStr("your-secret-key")
  @@ "security.jwt_expiration" :> VStr("24h")
  @@ "security.rate_limit_rps" :> VInt(100) @@ "security.rate_limit_burst" :> VInt(200)
  @@ "security.cors_origins" :> VList(<<"http://localhost:3000">>)
  @@ "security.csrf_secret" :> VStr("csrf-secret-key")
  @@ "security.enable_https_only" :> VBool(FALSE)

Defaults ==
  ServerDefaults @@ DatabaseDefaults @@ RedisDefaults @@ LoggingDefaults
    @@ FeatureDefaults @@ SecurityDefaults

(***************************************************************************)
(* init: the per-field override flags declared on the root command, each   *)
(* with its declared default, all bound to the library under the flag's    *)
(* own name (BindPFlags).                                                  *)
(***************************************************************************)
FlagDefault ==
  "server.host" :> VStr("localhost") @@ "server.port" :> VInt(8080)
  @@ "server.tls.enabled" :> VBool(FALSE)
  @@ "database.driver" :> VStr("postgres") @@ "database.host" :> VStr("localhost")
  @@ "database.port" :> VInt(5432)
  @@ "features.enable-metrics" :> VBool(FALSE)
  @@ "features.beta-features" :> VBool(FALSE)

FlagNames == DOMAIN FlagDefault

\* the values a caller passes for a flag in the runs explored
FlagInputs ==
  "server.host" :> {VStr("0.0.0.0")} @@ "server.port" :> {VInt(7000)}
  @@ "server.tls.enabled" :> {VBool(TRUE)}
  @@ "database.driver" :> {VStr("mysql")} @@ "database.host" :> {VStr("flag-db")}
  @@ "database.port" :> {VInt(3306)}
  @@ "features.enable-metrics" :> {VBool(FALSE), VBool(TRUE)}
  @@ "features.beta-features" :> {VBool(TRUE), VBool(FALSE)}

\* every command line: the flags explicitly passed (pflag's Changed), with values
FlagChoices ==
  UNION { { fl \in [S -> UNION {FlagInputs[x] : x \in S}] :
              \A x \in S : fl[x] \in FlagInputs[x] } :
          S \in {T \in SUBSET FlagNames : Cardinality(T) <= MaxFlags} }


(***************************************************************************)
(* Decoding (viper.Unmarshal): weakly typed input, with the string-to-     *)
(* duration and string-to-slice hooks.  Each conversion returns            *)
(* [ok, v]; ok = FALSE is the decode error of that field.                  *)
(***************************************************************************)
Digits == {"0", "1", "2", "3", "4", "5", "6", "7", "8", "9"}

DigitVal(c) ==
  CASE c = "0" -> 0 [] c = "1" -> 1 [] c = "2" -> 2 [] c = "3" -> 3 [] c = "4" -> 4
    [] c = "5" -> 5 [] c = "6" -> 6 [] c = "7" -> 7 [] c = "8" -> 8 [] c = "9" -> 9

DigitChar(d) == CharAt("0123456789", d + 1)

AllDigits(str) == str /= "" /\ \A i \in 1..Len(str) : CharAt(str, i) \in Digits

RECURSIVE DigitsValue(_)
DigitsValue(str) ==
  IF str = "" THEN 0
  ELSE DigitsValue(SubSeq(str, 1, Len(str) - 1)) * 10 + DigitVal(CharAt(str, Len(str)))

\* strconv.ParseInt on decimal input with an optional sign
ParseInt(str) ==
  LET signed == str /= "" /\ CharAt(str, 1) \in {"-", "+"}
      body   == IF signed THEN SubSeq(str, 2, Len(str)) ELSE str
  IN  IF AllDigits(body)
        THEN [ok |-> TRUE,
              n  |-> IF signed /\ CharAt(str, 1) = "-"
                       THEN 0 - DigitsValue(body) ELSE DigitsValue(body)]
        ELSE [ok |-> FALSE, n |-> 0]

\* strconv.FormatInt(n, 10)
RECURSIVE FormatNat(_)
FormatNat(n) ==
  IF n < 10 THEN DigitChar(n) ELSE FormatNat(n \div 10) \o DigitChar(n % 10)

FormatInt(n) == IF n < 0 THEN "-" \o FormatNat(0 - n) ELSE FormatNat(n)

\* strconv.ParseBool
ParseBool(str) ==
  IF str \in {"1", "t", "T", "TRUE", "true", "True"} THEN [ok |-> TRUE, b |-> TRUE]
  ELSE IF str \in {"0", "f", "F", "FALSE", "false", "False"} THEN [ok |-> TRUE, b |-> FALSE]
  ELSE [ok |-> FALSE, b |-> FALSE]

\* the number of leading decimal digits of str
RECURSIVE LeadingDigits(_)
LeadingDigits(str) ==
  IF str /= "" /\ CharAt(str, 1) \in Digits
    THEN 1 + LeadingDigits(SubSeq(str, 2, Len(str))) ELSE 0

UnitSeconds(u) == CASE u = "s" -> 1 [] u = "m" -> 60 [] u = "h" -> 3600

\* time.ParseDuration on <number><unit> groups with whole numbers and the
\* units s, m, h; the result in seconds
RECURSIVE ParseGroups(_)
ParseGroups(str) ==
  IF str = "" THEN [ok |-> TRUE, n |-> 0]
  ELSE LET p == LeadingDigits(str)
       IN  IF p = 0 \/ p = Len(str) \/ CharAt(str, p + 1) \notin {"s", "m", "h"}
             THEN [ok |-> FALSE, n |-> 0]
             ELSE LET rest == ParseGroups(SubSeq(str, p + 2, Len(str)))
                  IN  [ok |-> rest.ok,
                       n  |-> DigitsValue(SubSeq(str, 1, p)) * UnitSeconds(CharAt(str, p + 1))
                                + rest.n]

ParseDuration(str) ==
  IF str = "0" THEN [ok |-> TRUE, n |-> 0]
  ELSE IF str = "" THEN [ok |-> FALSE, n |-> 0]
  ELSE ParseGroups(str)

\* strings.Split(str, ",")
RECURSIVE SplitComma(_)
SplitComma(str) ==
  IF \E i \in 1..Len(str) : CharAt(str, i) = ","
    THEN LET i == CHOOSE j \in 1..Len(str) :
                    CharAt(str, j) = "," /\ \A h \in 1..(j - 1) : CharAt(str, h) /= ","
         IN  <<SubSeq(str, 1, i - 1)>> \o SplitComma(SubSeq(str, i + 1, Len(str)))
    ELSE <<str>>

DecodeError(ty) == [ok |-> FALSE, v |-> ZeroOf(ty)]

\* time.Duration counts nanoseconds; the model counts seconds
NanosPerSecond == 1000000000

\* decode one untyped value into a field of type ty
Decode(ty, v) ==
  CASE ty = "int" /\ v.k \in {"int", "bool", "float"} -> [ok |-> TRUE, v |-> VInt(v.n)]
    [] ty = "int" /\ v.k = "str" ->
         LET p == ParseInt(IF v.s = "" THEN "0" ELSE v.s)
         IN  IF p.ok THEN [ok |-> TRUE, v |-> VInt(p.n)] ELSE DecodeError(ty)
    [] ty = "bool" /\ v.k = "bool" -> [ok |-> TRUE, v |-> v]
    [] ty = "bool" /\ v.k \in {"int", "float"} -> [ok |-> TRUE, v |-> VBool(v.n /= 0)]
    [] ty = "bool" /\ v.k = "str" ->
         LET p == ParseBool(v.s)
         IN  IF v.s = "" THEN [ok |-> TRUE, v |-> VBool(FALSE)]
             ELSE IF p.ok THEN [ok |-> TRUE, v |-> VBool(p.b)] ELSE DecodeError(ty)
    [] ty = "str" /\ v.k = "str" -> [ok |-> TRUE, v |-> v]
    [] ty = "str" /\ v.k \in {"int", "float"} -> [ok |-> TRUE, v |-> VStr(FormatInt(v.n))]
    [] ty = "str" /\ v.k = "bool" -> [ok |-> TRUE, v |-> VStr(FormatInt(v.n))]
    [] ty = "dur" /\ v.k = "str" ->
         LET p == ParseDuration(v.s)
         IN  IF p.ok THEN [ok |-> TRUE, v |-> VDur(p.n)] ELSE DecodeError(ty)
    [] ty = "dur" /\ v.k \in {"int", "float"} ->
         [ok |-> TRUE, v |-> VDur(v.n \div NanosPerSecond)]
    [] ty = "list" /\ v.k = "list" -> [ok |-> TRUE, v |-> v]
    [] ty = "list" /\ v.k = "str" ->
         [ok |-> TRUE, v |-> VList(IF v.s = "" THEN <<>> ELSE SplitComma(v.s))]
    [] ty \in {"int", "bool", "str"} /\ v.k = "list" -> DecodeError(ty)


(***************************************************************************)
(* Key lookup as initConfig configures the library: explicitly passed      *)
(* flags (BindPFlags), then the environment (AutomaticEnv with prefix and  *)
(* key replacer; a variable set to the empty string counts as unset), then *)
(* the config file, then the defaults, and last the declared default of a  *)
(* bound flag.                                                             *)
(***************************************************************************)
\* the variable consulted for each key the program can look up
EnvNameOf == [key \in Fields \cup FlagNames |-> EnvName(key)]

EnvDefines(key, en) == EnvNameOf[key] \in DOMAIN en /\ en[EnvNameOf[key]] /= ""

\* mutant of Find: the config file outranks the environment
FindFileBeforeEnv(key, fl, en, vc) ==
  IF key \in DOMAIN fl THEN fl[key]
  ELSE IF key \in DOMAIN vc THEN vc[key]
  ELSE IF EnvDefines(key, en) THEN VStr(en[EnvNameOf[key]])
  ELSE IF key \in DOMAIN Defaults THEN Defaults[key]
  ELSE FlagDefault[key]

\* mutant of Find: a bound flag's declared default is read as if passed
FindFlagDefaultLeaks(key, fl, en, vc) ==
  IF key \in DOMAIN fl THEN fl[key]
  ELSE IF key \in FlagNames THEN FlagDefault[key]
  ELSE IF EnvDefines(key, en) THEN VStr(en[EnvNameOf[key]])
  ELSE IF key \in DOMAIN vc THEN vc[key]
  ELSE Defaults[key]

Find(key, fl, en, vc) ==
  IF key \in DOMAIN fl THEN fl[key]
  ELSE IF EnvDefines(key, en) THEN VStr(en[EnvNameOf[key]])
  ELSE IF key \in DOMAIN vc THEN vc[key]
  ELSE IF key \in DOMAIN Defaults THEN Defaults[key]
  ELSE FlagDefault[key]

\* viper.AllKeys(): the keys of the bound flags, the config file and the defaults
AllKeys(vc) == FlagNames \cup DOMAIN vc \cup DOMAIN Defaults

\* viper.Unmarshal(&config): every field whose path is a known key is decoded
\* into the struct IN PLACE; a field that fails to decode keeps the value the
\* struct held, the others are still written, and the error is returned.
\* mutant of Unmarshal: a field that already holds a value is not reset when
\* the new value is the zero value of its type
UnmarshalKeepsSetFields(cfg, fl, en, vc) ==
  LET known == Fields \cap AllKeys(vc)
      dec   == [f \in known |-> Decode(FieldType[f], Find(f, fl, en, vc))]
  IN  [cfg |-> [f \in Fields |->
                  IF f \in known /\ dec[f].ok /\ dec[f].v /= ZeroOf(FieldType[f])
                    THEN dec[f].v ELSE cfg[f]],
       err |-> \E f \in known : ~dec[f].ok]

Unmarshal(cfg, fl, en, vc) ==
  LET known == Fields \cap AllKeys(vc)
      dec   == [f \in known |-> Decode(FieldType[f], Find(f, fl, en, vc))]
  IN  [cfg |-> [f \in Fields |->
                  IF f \in known /\ dec[f].ok THEN dec[f].v ELSE cfg[f]],
       err |-> \E f \in known : ~dec[f].ok]


(***************************************************************************)
(* maskPassword                                                            *)
(***************************************************************************)
\* mutant of maskPassword: the short-secret threshold is off by one
maskPasswordOffByOne(password) ==
  IF password = "" THEN "(empty)"
  ELSE IF Len(password) < 4 THEN Repeat("*", Len(password))
  ELSE SubSeq(password, 1, 2) \o Repeat("*", Len(password) - 4)
         \o SubSeq(password, Len(password) - 1, Len(password))

maskPassword(password) ==
  IF password = "" THEN "(empty)"
  ELSE IF Len(password) <= 4 THEN Repeat("*", Len(password))
  ELSE SubSeq(password, 1, 2) \o Repeat("*", Len(password) - 4)
         \o SubSeq(password, Len(password) - 1, Len(password))

\* the GoDotEnv demo's copy of maskPassword: only the empty placeholder differs
maskPasswordDotEnv(password) ==
  IF password = "" THEN "<empty>"
  ELSE IF Len(password) <= 4 THEN Repeat("*", Len(password))
  ELSE SubSeq(password, 1, 2) \o Repeat("*", Len(password) - 4)
         \o SubSeq(password, Len(password) - 1, Len(password))

(***************************************************************************)
(* validateConfiguration: the rules in the order the code tests them, each *)
(* with the issue text it appends.                                         *)
(***************************************************************************)
PortOutOfRange(p) == p < 1 \/ p > 65535

validLogLevels == {"debug", "info", "warn", "error", "fatal"}

\* mutant of JWTSecretTooShort: the length test is off by one
JWTSecretTooShortOffByOne(cfg) == Len(cfg["security.jwt_secret"].s) <= 32

JWTSecretTooShort(cfg) == Len(cfg["security.jwt_secret"].s) < 32

IssueServerPort   == "Server port must be between 1 and 65535"
IssueServerMaxConn == "Server max_connections must be positive"
IssueTLS          == "TLS cert_file and key_file are required when TLS is enabled"
IssueDatabasePort == "Database port must be between 1 and 65535"
IssueDatabaseMaxConn == "Database max_connections must be positive"
IssueRedisPort    == "Redis port must be between 1 and 65535"
IssueRedisDatabase == "Redis database must be between 0 and 15"
IssueLogLevel     == "Logging level must be one of: debug, info, warn, error, fatal"
IssueRateLimit    == "Security rate_limit_rps must be positive"
IssueJWTSecret    == "Security jwt_secret should be at least 32 characters for security"

\* the checks of validateConfiguration, in source order: <<failed, issue>>
ValidationChecks(cfg) ==
  << <<PortOutOfRange(cfg["server.port"].n), IssueServerPort>>,
     <<cfg["server.max_connections"].n < 1, IssueServerMaxConn>>,
     <<cfg["server.tls.enabled"].n = 1
         /\ (cfg["server.tls.cert_file"].s = "" \/ cfg["server.tls.key_file"].s = ""),
       IssueTLS>>,
     <<PortOutOfRange(cfg["database.port"].n), IssueDatabasePort>>,
     <<cfg["database.max_connections"].n < 1, IssueDatabaseMaxConn>>,
     <<PortOutOfRange(cfg["redis.port"].n), IssueRedisPort>>,
     <<cfg["redis.database"].n < 0 \/ cfg["redis.database"].n > 15, IssueRedisDatabase>>,
     <<ToLower(cfg["logging.level"].s) \notin validLogLevels, IssueLogLevel>>,
     <<cfg["security.rate_limit_rps"].n < 1, IssueRateLimit>>,
     <<JWTSecretTooShort(cfg), IssueJWTSecret>> >>

\* issues = append(issues, ...) for every failed check, in order
RECURSIVE CollectIssues(_, _)
CollectIssues(checks, i) ==
  IF i > Len(checks) THEN <<>>
  ELSE (IF checks[i][1] THEN <<checks[i][2]>> ELSE <<>>) \o CollectIssues(checks, i + 1)

\* mutant of Validate: validation stops at the first failed check
ValidateFailFast(cfg) ==
  LET all == CollectIssues(ValidationChecks(cfg), 1)
  IN  [issues |-> IF all = <<>> THEN <<>> ELSE <<all[1]>>, valid |-> all = <<>>]

Validate(cfg) ==
  LET checks == ValidationChecks(cfg)
  IN  [issues |-> CollectIssues(checks, 1),
       valid  |-> \A i \in 1..Len(checks) : ~checks[i][1]]

(***************************************************************************)
(* compareConfigs: the fields whose change the watch command reports       *)
(***************************************************************************)
ComparedFields ==
  <<"server.port", "server.host", "database.host", "logging.level",
    "features.beta_features">>

\* mutant of compareConfigs: the logging.level comparison is left out
compareConfigsWithoutLevel(old, new) ==
  SelectSeq(ComparedFields, LAMBDA f : f /= "logging.level" /\ old[f] /= new[f])

compareConfigs(old, new) ==
  SelectSeq(ComparedFields, LAMBDA f : old[f] /= new[f])


(***************************************************************************)
(* What the commands print.  output collects one token per printed string  *)
(* value: src is the key (or environment variable) it was rendered from,   *)
(* text is the text as printed.                                            *)
(***************************************************************************)
RECURSIVE JoinSpace(_)
JoinSpace(q) ==
  IF q = <<>> THEN ""
  ELSE IF Len(q) = 1 THEN q[1] ELSE q[1] \o " " \o JoinSpace(Tail(q))

\* fmt's %v of an untyped or typed value
Sprint(v) ==
  CASE v.k = "str"  -> v.s
    [] v.k = "int"  -> FormatInt(v.n)
    [] v.k = "bool" -> IF v.n = 1 THEN "true" ELSE "false"
    [] v.k = "list" -> "[" \o JoinSpace(v.l) \o "]"

Token(src, text) == [src |-> src, text |-> text]

\* showConfiguration's test for a key whose value is masked
KeyIsSecret(key) ==
  Contains(ToLower(key), "password") \/ Contains(ToLower(key), "secret")

\* showConfiguration: the string fields of config (the four secrets through
\* maskPassword, the TLS files only when TLS is enabled), then every key of
\* the library with its value
ShowTokens(cfg, fl, en, vc) ==
  { Token(f, IF f \in SecretFields THEN maskPassword(cfg[f].s) ELSE cfg[f].s) :
      f \in { g \in Fields :
                /\ FieldType[g] = "str"
                /\ g \in {"server.tls.cert_file", "server.tls.key_file"}
                     => cfg["server.tls.enabled"].n = 1 } }
  \cup { Token("security.cors_origins", Sprint(cfg["security.cors_origins"])) }
  \cup { Token(key, IF KeyIsSecret(key)
                      THEN maskPassword(Sprint(Find(key, fl, en, vc)))
                      ELSE Sprint(Find(key, fl, en, vc))) :
           key \in AllKeys(vc) }

\* showBasicConfig and showDynamicAccess
DemoTokens(cfg, fl, en, vc) ==
  { Token(f, cfg[f].s) :
      f \in {"server.host", "database.driver", "database.host", "database.database",
             "redis.host", "logging.level", "logging.format"} }
  \cup { Token("server.host", Sprint(Find("server.host", fl, en, vc))),
         Token("security.cors_origins", Sprint(Find("security.cors_origins", fl, en, vc))) }

\* the keys environmentDemo lists with their current value
EnvDemoKeys ==
  {"server.host", "server.port", "server.tls.enabled", "database.host",
   "database.port", "database.password", "redis.host", "redis.database",
   "logging.level", "features.beta_features", "security.jwt_expiration"}

\* environmentDemo: the listed keys (database.password through maskPassword),
\* then every entry NAME=VALUE of os.Environ() that starts with the prefix
EnvDemoTokens(fl, en, vc) ==
  { Token(key, IF key = "database.password"
                 THEN maskPassword(Sprint(Find(key, fl, en, vc)))
                 ELSE Sprint(Find(key, fl, en, vc))) :
      key \in EnvDemoKeys }
  \cup { Token(name, name \o "=" \o en[name]) :
           name \in { x \in DOMAIN en :
                        SubSeq(x, 1, Len(envPrefix) + 1) = envPrefix \o "_" } }

\* the "Configuration is valid" summary, or the numbered issues
ValidateTokens(cfg, res) ==
  IF res.valid
    THEN { Token(f, cfg[f].s) :
             f \in {"server.host", "database.driver", "database.host", "logging.level"} }
    ELSE { Token("issue", res.issues[i]) : i \in 1..Len(res.issues) }

\* the lines compareConfigs prints for changed string fields
CompareTokens(old, new) ==
  UNION { {Token(f, old[f].s), Token(f, new[f].s)} :
            f \in { g \in {"server.host", "database.host", "logging.level"} :
                      old[g] /= new[g] } }


(***************************************************************************)
(* Inputs of a run: the environment, the command line and the config file. *)
(***************************************************************************)
\* the process environment: VIPERAPP_SERVER_PORT unset, set, or set but empty;
\* VIPERAPP_DATABASE_PASSWORD unset or set
EnvChoices ==
  { e \in { port @@ pw :
             port \in {EmptyLayer} \cup
                      { "VIPERAPP_SERVER_PORT" :> x : x \in {"9500", ""} },
             pw   \in {EmptyLayer} \cup
                      { "VIPERAPP_DATABASE_PASSWORD" :> x : x \in {"envsecret1"} } } :
      Cardinality(DOMAIN e) <= MaxEnvVars }

\* contents of the config file, as parsed key/value layers
FileInfo ==
  "server.port" :> VInt(9000) @@ "database.host" :> VStr("db.file")
  @@ "logging.level" :> VStr("info")

FileDebug ==
  "server.port" :> VInt(9000) @@ "database.host" :> VStr("db.file")
  @@ "logging.level" :> VStr("debug")

\* parses, but server.port does not decode into an int
FileBadPort ==
  "server.port" :> VStr("abc") @@ "database.host" :> VStr("db2.file")
  @@ "logging.level" :> VStr("debug")

FileSecrets ==
  "database.password" :> VStr("secure_password")
  @@ "redis.password" :> VStr("r3dis")
  @@ "security.jwt_secret" :> VStr("your-super-secret-jwt-key-here-make-it-long")
  @@ "security.csrf_secret" :> VStr("csrf-secret-key-here")

\* parses; server.port is the empty string
FileEmptyPort ==
  "server.port" :> VStr("") @@ "database.host" :> VStr("db.file")

\* parses; server.read_timeout is not a duration
FileBadTimeout ==
  "server.read_timeout" :> VStr("soon") @@ "database.host" :> VStr("db.file")

NoFile        == [st |-> "absent", data |-> EmptyLayer]
MalformedFile == [st |-> "malformed", data |-> EmptyLayer]
OkFile(d)     == [st |-> "ok", data |-> d]

\* what an editor can leave on disk
EditChoices ==
  {MalformedFile, OkFile(FileInfo), OkFile(FileDebug), OkFile(FileBadPort),
   OkFile(FileSecrets)}

\* what initConfig can find on disk
DiskChoices ==
  {NoFile, OkFile(FileEmptyPort), OkFile(FileBadTimeout)} \cup EditChoices

NoCycle ==
  [readErr |-> FALSE, invoked |-> FALSE, decodeErr |-> FALSE, updated |-> FALSE,
   diff |-> <<>>, old |-> ZeroConfig, reads |-> 0, calls |-> 0]

(***************************************************************************)
(* State                                                                   *)
(***************************************************************************)
VARIABLES
  cfgFile,         \* --config: "" when not passed
  flags,           \* the explicitly passed override flags, with their values
  env,             \* the process environment
  disk,            \* the config file on disk
  vconfig,         \* the library's config-file layer (last successful read)
  configFileUsed,  \* viper.ConfigFileUsed() /= ""
  config,          \* the package-level Config
  pc,              \* "init", "ready", "watch_started", "watching", "exit", "fatal"
  command,         \* the sub-command that ran
  startup,         \* what initConfig reported about the file
  output,          \* tokens printed so far
  issues,          \* validateConfiguration's issues
  valid,           \* validateConfiguration's valid
  exitCode,        \* the process exit code, -1 while running
  pending,         \* file-change notifications not yet handled
  edits,           \* file edits made during the watch
  cycle,           \* the outcome of the last notification handled, with the
                   \* numbers of re-reads and of callback invocations so far
  maskIn,          \* argument of the maskPassword call under test
  maskOut,         \* its result in the Viper demo
  maskOutEnv,      \* its result in the GoDotEnv demo
  memory,          \* Calculator.memory
  calcOp,          \* the Calculator method called last, "" before the first call
  calcRet,         \* the number it returned
  calcErr,         \* whether it returned an error
  lastResult,      \* the result of the most recent successful operation since
                   \* NewCalculator or the last ClearMemory, 0 if there was none
  users,           \* UserService.users
  usCall,          \* the UserService method called last, its arguments and error
  usersBefore,     \* UserService.users as that call found it
  mockCalls,       \* the calls the service under test made on its mock, in order
  svcCall,         \* the NotificationService / UserRepository method called
                   \* last, its arguments and the error it returned
  echoUsers,       \* users of the Echo demo server
  routerUsers,     \* users of the HTTPRouter demo server
  todos,           \* todos of the Templ todo server
  nextID,          \* nextID of the Templ todo server
  handlers,        \* the createTodoHandler goroutines: position and locals
  requests         \* the numbers of create-todo requests accepted and of
                   \* todos deleted so far

vars ==
  <<cfgFile, flags, env, disk, vconfig, configFileUsed, config, pc, command,
    startup, output, issues, valid, exitCode, pending, edits, cycle, maskIn, maskOut,
    maskOutEnv, memory, calcOp, calcRet, calcErr, lastResult, users, usCall,
    usersBefore, mockCalls, svcCall, echoUsers, routerUsers, todos, nextID,
    handlers, requests>>

runVars == <<cfgFile, flags, env>>
maskVars == <<maskIn, maskOut, maskOutEnv>>
calcVars == <<memory, calcOp, calcRet, calcErr, lastResult>>
viperVars ==
  <<runVars, disk, vconfig, configFileUsed, config, pc, command, startup, output,
    issues, valid, exitCode, pending, edits, cycle, maskVars>>
userVars == <<users, usCall, usersBefore>>
mockVars == <<mockCalls, svcCall>>
storeVars == <<echoUsers, routerUsers>>
todoVars == <<todos, nextID, handlers, requests>>
libVars == <<userVars, mockVars, storeVars, todoVars>>

\* NewCalculator: a Calculator on which nothing was called yet
NewCalculator ==
  /\ memory = 0
  /\ calcOp = ""
  /\ calcRet = 0
  /\ calcErr = FALSE
  /\ lastResult = 0

\* a User as the services read it
User(id, name, email) == [ID |-> id, Name |-> name, Email |-> email]

NoUser == User(0, "", "")

\* NewUserService: the two users it is constructed with
NewUserService ==
  /\ users = <<User(1, "John Doe", "john@example.com"),
               User(2, "Jane Smith", "jane@example.com")>>
  /\ usCall = [op |-> "", id |-> 0, user |-> NoUser, err |-> ""]
  /\ usersBefore = users

\* a mock on which nothing was called, under a service nothing was called on
NewMock ==
  /\ mockCalls = <<>>
  /\ svcCall = [op |-> "", id |-> 0, user |-> NoUser, text |-> "", err |-> ""]

\* the users of the two demo servers at start
DemoUsers ==
  <<User(1, "John Doe", "john@example.com"), User(2, "Jane Smith", "jane@example.com"),
    User(3, "Bob Johnson", "bob@example.com")>>

NewStores ==
  /\ echoUsers = DemoUsers
  /\ routerUsers = DemoUsers

Todo(id, text) == [ID |-> id, Text |-> text]

Handlers == {1, 2}

IdleHandler == [pc |-> "idle", text |-> "", id |-> 0, slice |-> <<>>, n |-> 0]

\* the todo server after init(): four todos, nextID = 5
NewTodos ==
  /\ todos = <<Todo(1, "Learn Templ basics"), Todo(2, "Build a demo application"),
               Todo(3, "Create reusable components"),
               Todo(4, "Add interactive features")>>
  /\ nextID = 5
  /\ handlers = [h \in Handlers |-> IdleHandler]
  /\ requests = [created |-> 0, deleted |-> 0]

NewLibraries ==
  /\ NewUserService
  /\ NewMock
  /\ NewStores
  /\ NewTodos

Init ==
  /\ cfgFile \in {"", "config.yaml"}
  /\ flags \in FlagChoices
  /\ Cardinality(DOMAIN flags) + (IF cfgFile = "" THEN 0 ELSE 1) <= MaxFlags
  /\ env \in EnvChoices
  /\ disk \in DiskChoices
  /\ vconfig = EmptyLayer
  /\ configFileUsed = FALSE
  /\ config = ZeroConfig
  /\ pc = "init"
  /\ command = ""
  /\ startup = ""
  /\ output = {}
  /\ issues = <<>>
  /\ valid = TRUE
  /\ exitCode = -1
  /\ pending = 0
  /\ edits = 0
  /\ cycle = NoCycle
  /\ maskIn = ""
  /\ maskOut = ""
  /\ maskOutEnv = ""
  /\ NewCalculator
  /\ NewLibraries

(***************************************************************************)
(* initConfig (cobra.OnInitialize): runs before every command              *)
(***************************************************************************)
\* mutant of StartupFatal: any error of ReadInConfig ends the process
StartupFatalOnReadError(d, decodeErr) == decodeErr \/ d.st /= "ok"

\* initConfig ends the process (log.Fatalf) only when Unmarshal fails; an
\* error of ReadInConfig is printed and initConfig goes on
StartupFatal(d, decodeErr) == decodeErr

InitConfig ==
  /\ pc = "init"
  /\ LET found  == disk.st /= "absent"
         readOK == disk.st = "ok"
         vc     == IF readOK THEN disk.data ELSE vconfig
     IN  \E u \in {Unmarshal(config, flags, env, vc)} :
         /\ vconfig' = vc
         /\ configFileUsed' = (cfgFile /= "" \/ found)
         /\ startup' = IF readOK THEN "using"
                       ELSE IF cfgFile = "" /\ ~found THEN "not_found"
                       ELSE "read_error"
         /\ config' = u.cfg
         /\ pc' = IF StartupFatal(disk, u.err) THEN "fatal" ELSE "ready"
         /\ exitCode' = IF StartupFatal(disk, u.err) THEN 1 ELSE exitCode
  /\ UNCHANGED <<runVars, disk, command, output, issues, valid, pending, edits,
                 cycle, maskVars,
                 calcVars, libVars>>

\* a command that prints and returns: main returns, exit code 0
Finish(cmd, tokens) ==
  /\ command' = cmd
  /\ output' = output \cup tokens
  /\ pc' = "exit"
  /\ exitCode' = 0

RunDemo ==
  /\ pc = "ready"
  /\ Finish("root", DemoTokens(config, flags, env, vconfig))
  /\ UNCHANGED <<runVars, disk, vconfig, configFileUsed, config, startup, issues,
                 valid, pending, edits, cycle, maskVars,
                 calcVars, libVars>>

ShowConfiguration ==
  /\ pc = "ready"
  /\ Finish("show", ShowTokens(config, flags, env, vconfig))
  /\ UNCHANGED <<runVars, disk, vconfig, configFileUsed, config, startup, issues,
                 valid, pending, edits, cycle, maskVars,
                 calcVars, libVars>>

ValidateConfiguration ==
  /\ pc = "ready"
  /\ \E res \in {Validate(config)} :
         /\ issues' = res.issues
         /\ valid' = res.valid
         /\ Finish("validate", ValidateTokens(config, res))
  /\ UNCHANGED <<runVars, disk, vconfig, configFileUsed, config, startup, pending,
                 edits, cycle, maskVars,
                 calcVars, libVars>>

EnvironmentDemo ==
  /\ pc = "ready"
  /\ Finish("env-demo", EnvDemoTokens(flags, env, vconfig))
  /\ UNCHANGED <<runVars, disk, vconfig, configFileUsed, config, startup, issues,
                 valid, pending, edits, cycle, maskVars,
                 calcVars, libVars>>


(***************************************************************************)
(* watchConfiguration.  viper.WatchConfig() starts the watcher goroutine,  *)
(* viper.OnConfigChange(...) then registers the callback, and the command  *)
(* blocks in select {}.  On each notification the watcher re-reads the     *)
(* file (keeping the previous file layer when the read fails) and then     *)
(* calls the registered callback, whatever the read returned.              *)
(***************************************************************************)
WatchNoFile ==
  /\ pc = "ready"
  /\ ~configFileUsed
  /\ Finish("watch", {})
  /\ UNCHANGED <<runVars, disk, vconfig, configFileUsed, config, startup, issues,
                 valid, pending, edits, cycle, maskVars,
                 calcVars, libVars>>

WatchConfig ==
  /\ pc = "ready"
  /\ configFileUsed
  /\ pc' = "watch_started"
  /\ command' = "watch"
  /\ UNCHANGED <<runVars, disk, vconfig, configFileUsed, config, startup, output,
                 issues, valid, exitCode, pending, edits, cycle, maskVars,
                 calcVars, libVars>>

OnConfigChange ==
  /\ pc = "watch_started"
  /\ pc' = "watching"
  /\ UNCHANGED <<runVars, disk, vconfig, configFileUsed, config, command, startup,
                 output, issues, valid, exitCode, pending, edits, cycle, maskVars,
                 calcVars, libVars>>

\* an editor saves the watched file: one or two write notifications
FileEdit ==
  /\ pc \in {"watch_started", "watching"}
  /\ edits < MaxEdits
  /\ \E d \in EditChoices \ {disk}, k \in {1, 2} :
       /\ disk' = d
       /\ pending' = pending + k
  /\ edits' = edits + 1
  /\ UNCHANGED <<runVars, vconfig, configFileUsed, config, pc, command, startup,
                 output, issues, valid, exitCode, cycle, maskVars,
                 calcVars, libVars>>

\* the watcher handles one notification: ReadInConfig, then the callback
\* (lines 537-551) if it is registered
WatchEvent ==
  /\ pc \in {"watch_started", "watching"}
  /\ pending > 0
  /\ pending' = pending - 1
  /\ LET readOK == disk.st = "ok"
         vc     == IF readOK THEN disk.data ELSE vconfig
     IN  \E u \in {Unmarshal(config, flags, env, vc)} :
         /\ vconfig' = vc
         /\ IF pc = "watching"
              THEN /\ config' = u.cfg
                   /\ cycle' = [readErr |-> ~readOK, invoked |-> TRUE,
                                decodeErr |-> u.err, updated |-> ~u.err,
                                diff |-> IF u.err THEN <<>>
                                         ELSE compareConfigs(config, u.cfg),
                                old |-> config,
                                reads |-> cycle.reads + 1, calls |-> cycle.calls + 1]
                   /\ output' = IF u.err THEN output
                                ELSE output \cup CompareTokens(config, u.cfg)
              ELSE /\ config' = config
                   /\ cycle' = [readErr |-> ~readOK, invoked |-> FALSE,
                                decodeErr |-> FALSE, updated |-> FALSE,
                                diff |-> <<>>, old |-> config,
                                reads |-> cycle.reads + 1, calls |-> cycle.calls]
                   /\ output' = output
  /\ UNCHANGED <<runVars, disk, configFileUsed, pc, command, startup, issues,
                 valid, exitCode, edits, maskVars,
                 calcVars, libVars>>

\* one run of the program without file edits: initConfig, then one command
Next ==
  \/ InitConfig
  \/ RunDemo
  \/ ShowConfiguration
  \/ ValidateConfiguration
  \/ EnvironmentDemo
  \/ WatchNoFile
  \/ WatchConfig
  \/ OnConfigChange

Spec == Init /\ [][Next]_vars

(***************************************************************************)
(* The watch session: the watch command with an editor saving the file.    *)
(***************************************************************************)
InitWatch ==
  /\ Init
  /\ DOMAIN flags \subseteq {"server.port"}

NextWatch ==
  \/ InitConfig
  \/ WatchNoFile
  \/ WatchConfig
  \/ OnConfigChange
  \/ FileEdit
  \/ WatchEvent

SpecWatch == InitWatch /\ [][NextWatch]_vars

\* the watch session on a config file found in the search path, with any of
\* the override flags on the command line
InitReload ==
  /\ Init
  /\ disk = OkFile(FileInfo)

NextReload ==
  \/ InitConfig
  \/ WatchConfig
  \/ OnConfigChange
  \/ FileEdit
  \/ WatchEvent

SpecReload == InitReload /\ [][NextReload]_vars

(***************************************************************************)
(* validateConfiguration on every decoded configuration of a bounded       *)
(* family: a valid configuration with each checked field varied.           *)
(***************************************************************************)
ValidConfig == Unmarshal(ZeroConfig, EmptyLayer, EmptyLayer, FileSecrets).cfg

ValidateInputs ==
  { [ValidConfig EXCEPT
       !["server.port"] = VInt(sp), !["database.port"] = VInt(dp),
       !["redis.port"] = VInt(rp), !["server.max_connections"] = VInt(sm),
       !["database.max_connections"] = VInt(dm),
       !["server.tls.enabled"] = VBool(te), !["server.tls.cert_file"] = VStr(tc),
       !["server.tls.key_file"] = VStr(tk), !["redis.database"] = VInt(rd),
       !["logging.level"] = VStr(lv), !["security.rate_limit_rps"] = VInt(rl),
       !["security.jwt_secret"] = VStr(jw)] :
      sp \in {0, 8080, 70000}, dp \in {5432, 70000}, rp \in {6379, 0},
      sm \in {1000, 0}, dm \in {25, 0},
      te \in BOOLEAN, tc \in {"", "/path/to/cert.pem"}, tk \in {"", "/path/to/key.pem"},
      rd \in {0, 16, -1}, lv \in {"info", "WARN", "verbose"}, rl \in {100, 0},
      jw \in {"short", Repeat("k", 31), Repeat("k", 32)} }

InitValidate ==
  /\ cfgFile = ""
  /\ flags = EmptyLayer
  /\ env = EmptyLayer
  /\ disk = NoFile
  /\ vconfig = EmptyLayer
  /\ configFileUsed = FALSE
  /\ config \in ValidateInputs
  /\ pc = "ready"
  /\ command = ""
  /\ startup = "not_found"
  /\ output = {}
  /\ issues = <<>>
  /\ valid = TRUE
  /\ exitCode = -1
  /\ pending = 0
  /\ edits = 0
  /\ cycle = NoCycle
  /\ maskIn = ""
  /\ maskOut = ""
  /\ maskOutEnv = ""
  /\ NewCalculator
  /\ NewLibraries

NextValidate == ValidateConfiguration

SpecValidate == InitValidate /\ [][NextValidate]_vars

(***************************************************************************)
(* maskPassword on every string over a small alphabet up to MaxMaskLen.    *)
(***************************************************************************)
MaskAlphabet == {"p", "w", "1"}

RECURSIVE StringsOfLen(_)
StringsOfLen(n) ==
  IF n = 0 THEN {""} ELSE { str \o c : str \in StringsOfLen(n - 1), c \in MaskAlphabet }

MaskInputs == UNION { StringsOfLen(n) : n \in 0..MaxMaskLen }

InitMask ==
  /\ cfgFile = ""
  /\ flags = EmptyLayer
  /\ env = EmptyLayer
  /\ disk = NoFile
  /\ vconfig = EmptyLayer
  /\ configFileUsed = FALSE
  /\ config = ZeroConfig
  /\ pc = "mask"
  /\ command = ""
  /\ startup = ""
  /\ output = {}
  /\ issues = <<>>
  /\ valid = TRUE
  /\ exitCode = -1
  /\ pending = 0
  /\ edits = 0
  /\ cycle = NoCycle
  /\ maskIn \in MaskInputs
  /\ maskOut = ""
  /\ maskOutEnv = ""
  /\ NewCalculator
  /\ NewLibraries

MaskPassword ==
  /\ pc = "mask"
  /\ pc' = "masked"
  /\ maskOut' = maskPassword(maskIn)
  /\ maskOutEnv' = maskPasswordDotEnv(maskIn)
  /\ UNCHANGED <<runVars, disk, vconfig, configFileUsed, config, command, startup,
                 output, issues, valid, exitCode, pending, edits, cycle, maskIn,
                 calcVars, libVars>>

NextMask == MaskPassword

SpecMask == InitMask /\ [][NextMask]_vars


(***************************************************************************)
(* createSampleConfigs writes one configuration as config.yaml, config.json *)
(* and config.toml.  Each file writes an integer as a bare number, a        *)
(* boolean as true/false, a string and a duration as a quoted string (the   *)
(* duration in <number><unit> form) and the list as an array.  Loaded with  *)
(* --config <file>, the file is parsed by the parser of its extension: the  *)
(* JSON parser yields every number as a float64, the YAML and TOML parsers  *)
(* yield integers.                                                          *)
(***************************************************************************)
\* the configuration the three sample files hold
SampleConfig ==
  "server.host" :> VStr("localhost")
  @@ "server.port" :> VInt(8080)
  @@ "server.read_timeout" :> VDur(30)
  @@ "server.write_timeout" :> VDur(30)
  @@ "server.max_connections" :> VInt(1000)
  @@ "server.tls.enabled" :> VBool(FALSE)
  @@ "server.tls.cert_file" :> VStr("/path/to/cert.pem")
  @@ "server.tls.key_file" :> VStr("/path/to/key.pem")
  @@ "database.driver" :> VStr("postgres")
  @@ "database.host" :> VStr("localhost")
  @@ "database.port" :> VInt(5432)
  @@ "database.username" :> VStr("myapp_user")
  @@ "database.password" :> VStr("secure_password")
  @@ "database.database" :> VStr("myapp_db")
  @@ "database.ssl_mode" :> VStr("require")
  @@ "database.max_connections" :> VInt(25)
  @@ "database.max_idle_time" :> VDur(900)
  @@ "database.conn_max_lifetime" :> VDur(3600)
  @@ "redis.host" :> VStr("localhost")
  @@ "redis.port" :> VInt(6379)
  @@ "redis.password" :> VStr("")
  @@ "redis.database" :> VInt(0)
  @@ "redis.pool_size" :> VInt(10)
  @@ "logging.level" :> VStr("info")
  @@ "logging.format" :> VStr("json")
  @@ "logging.output" :> VStr("stdout")
  @@ "logging.max_size" :> VInt(100)
  @@ "logging.max_backups" :> VInt(3)
  @@ "logging.max_age" :> VInt(7)
  @@ "logging.compress" :> VBool(TRUE)
  @@ "features.enable_metrics" :> VBool(TRUE)
  @@ "features.enable_tracing" :> VBool(FALSE)
  @@ "features.enable_profiling" :> VBool(FALSE)
  @@ "features.enable_caching" :> VBool(TRUE)
  @@ "features.beta_features" :> VBool(FALSE)
  @@ "security.jwt_secret" :> VStr("your-super-secret-jwt-key-here-make-it-long")
  @@ "security.jwt_expiration" :> VDur(86400)
  @@ "security.rate_limit_rps" :> VInt(100)
  @@ "security.rate_limit_burst" :> VInt(200)
  @@ "security.cors_origins" :> VList(<<"http://localhost:3000", "https://myapp.com">>)
  @@ "security.csrf_secret" :> VStr("csrf-secret-key-here")
  @@ "security.enable_https_only" :> VBool(FALSE)

\* the text the samples use for a duration (seconds)
DurationText == 30 :> "30s" @@ 900 :> "15m" @@ 3600 :> "1h" @@ 86400 :> "24h"

\* mutant of WriteField: a duration is written as a bare number of seconds
WriteFieldDurationAsNumber(ty, v) ==
  IF ty = "dur" THEN VInt(v.n) ELSE v

\* the literal written for a field of type ty holding v
WriteField(ty, v) ==
  IF ty = "dur" THEN VStr(DurationText[v.n]) ELSE v

\* the value a parser yields for a literal
ReadField(type, lit) ==
  IF type = "json" /\ lit.k = "int" THEN VFloat(lit.n) ELSE lit

\* filepath.Ext without its dot: the text after the last "."
RECURSIVE ConfigTypeOf(_)
ConfigTypeOf(name) ==
  IF ~Contains(name, ".") THEN ""
  ELSE LET rest == SubSeq(name, 2, Len(name))
       IN  IF Contains(rest, ".") THEN ConfigTypeOf(rest)
           ELSE IF CharAt(name, 1) = "." THEN rest ELSE ConfigTypeOf(rest)

SampleFileNames == {"config.yaml", "config.json", "config.toml"}

\* the file `name` holding configuration c, as its parser reads it
SampleFile(name, c) ==
  OkFile([f \in Fields |-> ReadField(ConfigTypeOf(name), WriteField(FieldType[f], c[f]))])

\* the sample configuration and variants of it in fields of every type
SampleInputs ==
  { [SampleConfig EXCEPT
       !["server.port"] = VInt(sp), !["server.read_timeout"] = VDur(rt),
       !["server.tls.enabled"] = VBool(te), !["logging.level"] = VStr(lv),
       !["security.cors_origins"] = VList(co)] :
      sp \in {8080, 9000}, rt \in {30, 3600}, te \in BOOLEAN,
      lv \in {"info", "debug"},
      co \in {<<>>, <<"https://myapp.com">>,
              <<"http://localhost:3000", "https://myapp.com">>} }

\* viper-demo --config <sample file>, with no override flag and no
\* VIPERAPP_* variable
InitFormats ==
  /\ cfgFile \in SampleFileNames
  /\ flags = EmptyLayer
  /\ env = EmptyLayer
  /\ disk \in { SampleFile(cfgFile, c) : c \in SampleInputs }
  /\ vconfig = EmptyLayer
  /\ configFileUsed = FALSE
  /\ config = ZeroConfig
  /\ pc = "init"
  /\ command = ""
  /\ startup = ""
  /\ output = {}
  /\ issues = <<>>
  /\ valid = TRUE
  /\ exitCode = -1
  /\ pending = 0
  /\ edits = 0
  /\ cycle = NoCycle
  /\ maskIn = ""
  /\ maskOut = ""
  /\ maskOutEnv = ""
  /\ NewCalculator
  /\ NewLibraries

NextFormats ==
  \/ InitConfig
  \/ RunDemo

SpecFormats == InitFormats /\ [][NextFormats]_vars


(***************************************************************************)
(* Calculator.  Every method is a function of the memory and its arguments  *)
(* that yields the returned number, whether an error is returned, and the   *)
(* memory afterwards.  The arguments are drawn from integers whose results  *)
(* are integers, which float64 holds exactly.                               *)
(***************************************************************************)
Add(mem, a, b) == [result |-> a + b, err |-> FALSE, memory |-> a + b]

Subtract(mem, a, b) == [result |-> a - b, err |-> FALSE, memory |-> a - b]

Multiply(mem, a, b) == [result |-> a * b, err |-> FALSE, memory |-> a * b]

\* the quotient a / b of integers with b /= 0 that divide exactly
Quotient(a, b) ==
  CHOOSE q \in -(IF a < 0 THEN -a ELSE a)..(IF a < 0 THEN -a ELSE a) : q * b = a

\* mutant of Divide: the memory is reset when the division is refused
DivideClearsOnError(mem, a, b) ==
  IF b = 0 THEN [result |-> 0, err |-> TRUE, memory |-> 0]
  ELSE [result |-> Quotient(a, b), err |-> FALSE, memory |-> Quotient(a, b)]

Divide(mem, a, b) ==
  IF b = 0 THEN [result |-> 0, err |-> TRUE, memory |-> mem]
  ELSE [result |-> Quotient(a, b), err |-> FALSE, memory |-> Quotient(a, b)]

\* math.Sqrt of a perfect square
SqrtOf(a) == CHOOSE r \in 0..a : r * r = a

Sqrt(mem, a) ==
  IF a < 0 THEN [result |-> 0, err |-> TRUE, memory |-> mem]
  ELSE [result |-> SqrtOf(a), err |-> FALSE, memory |-> SqrtOf(a)]

\* math.Pow for an exponent that is a natural number
RECURSIVE Pow(_, _)
Pow(base, exponent) == IF exponent = 0 THEN 1 ELSE base * Pow(base, exponent - 1)

Power(mem, base, exponent) ==
  [result |-> Pow(base, exponent), err |-> FALSE, memory |-> Pow(base, exponent)]

GetMemory(mem) == [result |-> mem, err |-> FALSE, memory |-> mem]

ClearMemory(mem) == [result |-> 0, err |-> FALSE, memory |-> 0]

\* the arguments of the calls
Operands == {-3, -2, 0, 1, 3, 5}
Dividends == {-12, -6, 0, 6, 12}
Divisors == {-3, 0, 2}
Radicands == {-4, -1, 0, 4, 9, 16}
Exponents == {0, 2, 3}

\* one call of an operation: the Calculator takes what the method yields;
\* lastResult follows the returned values alone
Operation(name, r) ==
  /\ memory' = r.memory
  /\ calcOp' = name
  /\ calcRet' = r.result
  /\ calcErr' = r.err
  /\ lastResult' = IF r.err THEN lastResult ELSE r.result
  /\ UNCHANGED <<runVars, disk, vconfig, configFileUsed, config, pc, command,
                 startup, output, issues, valid, exitCode, pending, edits, cycle,
                 maskVars, libVars>>

CallAdd == \E a \in Operands, b \in Operands : Operation("Add", Add(memory, a, b))

CallSubtract ==
  \E a \in Operands, b \in Operands : Operation("Subtract", Subtract(memory, a, b))

CallMultiply ==
  \E a \in Operands, b \in Operands : Operation("Multiply", Multiply(memory, a, b))

CallDivide ==
  \E a \in Dividends, b \in Divisors : Operation("Divide", Divide(memory, a, b))

CallSqrt == \E a \in Radicands : Operation("Sqrt", Sqrt(memory, a))

CallPower ==
  \E a \in Operands, b \in Exponents : Operation("Power", Power(memory, a, b))

CallGetMemory ==
  /\ memory' = GetMemory(memory).memory
  /\ calcOp' = "GetMemory"
  /\ calcRet' = GetMemory(memory).result
  /\ calcErr' = FALSE
  /\ UNCHANGED <<runVars, disk, vconfig, configFileUsed, config, pc, command,
                 startup, output, issues, valid, exitCode, pending, edits, cycle,
                 maskVars, lastResult, libVars>>

CallClearMemory ==
  /\ memory' = ClearMemory(memory).memory
  /\ calcOp' = "ClearMemory"
  /\ calcRet' = 0
  /\ calcErr' = FALSE
  /\ lastResult' = 0
  /\ UNCHANGED <<runVars, disk, vconfig, configFileUsed, config, pc, command,
                 startup, output, issues, valid, exitCode, pending, edits, cycle,
                 maskVars, libVars>>

InitCalc ==
  /\ cfgFile = ""
  /\ flags = EmptyLayer
  /\ env = EmptyLayer
  /\ disk = NoFile
  /\ vconfig = EmptyLayer
  /\ configFileUsed = FALSE
  /\ config = ZeroConfig
  /\ pc = "calculator"
  /\ command = ""
  /\ startup = ""
  /\ output = {}
  /\ issues = <<>>
  /\ valid = TRUE
  /\ exitCode = -1
  /\ pending = 0
  /\ edits = 0
  /\ cycle = NoCycle
  /\ maskIn = ""
  /\ maskOut = ""
  /\ maskOutEnv = ""
  /\ NewCalculator
  /\ NewLibraries

NextCalc ==
  \/ CallAdd
  \/ CallSubtract
  \/ CallMultiply
  \/ CallDivide
  \/ CallSqrt
  \/ CallPower
  \/ CallGetMemory
  \/ CallClearMemory

SpecCalc == InitCalc /\ [][NextCalc]_vars


(***************************************************************************)
(* UserService: a slice of users, searched front to back by every method.  *)
(***************************************************************************)
ErrUserNotFound == "user not found"

\* the index of the first user of us with the ID id, 0 when there is none
IndexOfID(us, id) ==
  IF \E i \in 1..Len(us) : us[i].ID = id
    THEN CHOOSE i \in 1..Len(us) :
           us[i].ID = id /\ \A j \in 1..(i - 1) : us[j].ID /= id
    ELSE 0

GetUser(us, id) ==
  IF IndexOfID(us, id) = 0 THEN [user |-> NoUser, err |-> ErrUserNotFound]
  ELSE [user |-> us[IndexOfID(us, id)], err |-> ""]

\* the users passed to AddUser and UpdateUser, and the IDs asked for
UserInputs ==
  { User(id, ne[1], ne[2]) :
      id \in {1, 2, 3},
      ne \in {<<"Ann Lee", "ann@example.com">>, <<"", "ann@example.com">>,
              <<"Ann Lee", "">>} }

UserIDs == {1, 2, 3}

\* what a call leaves behind for the caller, next to the slice
Called(op, id, user, err) ==
  /\ usCall' = [op |-> op, id |-> id, user |-> user, err |-> err]
  /\ usersBefore' = users
  /\ UNCHANGED <<viperVars, calcVars, mockVars, storeVars, todoVars>>

\* mutant of AddUser: the search for a stored user with the same ID is left out
AddUserNoDuplicateCheck ==
  \E user \in UserInputs :
    \E err \in { IF user.Name = "" THEN "name cannot be empty"
                 ELSE IF user.Email = "" THEN "email cannot be empty"
                 ELSE "" } :
      /\ users' = IF err = "" THEN Append(users, user) ELSE users
      /\ Called("AddUser", user.ID, user, err)

AddUser ==
  \E user \in UserInputs :
    \E err \in { IF user.Name = "" THEN "name cannot be empty"
                 ELSE IF user.Email = "" THEN "email cannot be empty"
                 ELSE IF IndexOfID(users, user.ID) /= 0
                   THEN "user with this ID already exists"
                 ELSE "" } :
      /\ users' = IF err = "" THEN Append(users, user) ELSE users
      /\ Called("AddUser", user.ID, user, err)

\* mutant of UpdateUser: the updated user is stored with the ID it carries
UpdateUserKeepsCarriedID ==
  \E id \in UserIDs, updatedUser \in UserInputs :
    \E i \in {IndexOfID(users, id)} :
      /\ users' = IF i = 0 THEN users ELSE [users EXCEPT ![i] = updatedUser]
      /\ Called("UpdateUser", id, updatedUser, IF i = 0 THEN ErrUserNotFound ELSE "")

UpdateUser ==
  \E id \in UserIDs, updatedUser \in UserInputs :
    \E i \in {IndexOfID(users, id)} :
      /\ users' = IF i = 0 THEN users
                  ELSE [users EXCEPT ![i] = [updatedUser EXCEPT !.ID = id]]
      /\ Called("UpdateUser", id, updatedUser, IF i = 0 THEN ErrUserNotFound ELSE "")

\* mutant of DeleteUser: the users behind the deleted one are dropped with it
DeleteUserDropsTail ==
  \E id \in UserIDs :
    \E i \in {IndexOfID(users, id)} :
      /\ users' = IF i = 0 THEN users ELSE SubSeq(users, 1, i - 1)
      /\ Called("DeleteUser", id, NoUser, IF i = 0 THEN ErrUserNotFound ELSE "")

DeleteUser ==
  \E id \in UserIDs :
    \E i \in {IndexOfID(users, id)} :
      /\ users' = IF i = 0 THEN users
                  ELSE SubSeq(users, 1, i - 1) \o SubSeq(users, i + 1, Len(users))
      /\ Called("DeleteUser", id, NoUser, IF i = 0 THEN ErrUserNotFound ELSE "")

\* no command of the Viper demo is running; every library object is as its
\* constructor leaves it
InitUsers == InitCalc

NextUsers ==
  \/ AddUser
  \/ UpdateUser
  \/ DeleteUser

SpecUsers == InitUsers /\ [][NextUsers]_vars


(***************************************************************************)
(* NotificationService and UserRepository, each over the interface it is    *)
(* given (EmailService, Database).  The implementation behind the interface *)
(* is free: what it returns is chosen at each call.  mockCalls is the list  *)
(* of calls the service made on it during the service call, in order; ret   *)
(* is what the call returned ("true"/"false", or an error text, "" for nil).*)
(***************************************************************************)
EmailCall(method, to, subject, body, ret) ==
  [method |-> method, to |-> to, subject |-> subject, body |-> body,
   id |-> 0, user |-> NoUser, ret |-> ret]

DatabaseCall(method, id, user, ret) ==
  [method |-> method, to |-> "", subject |-> "", body |-> "",
   id |-> id, user |-> user, ret |-> ret]

ErrInvalidEmail == "invalid email address"

ErrNameRequired == "name is required"

\* the arguments of the calls, and the errors the implementations return
Emails ==
  {"", "invalid-email", "test@example.com", "john@example.com", "any@example.com"}
Messages == {"", "Hello!", "Any message"}
SendErrors == {"", "SMTP error"}
RepoUsers == { User(id, name, "jane@example.com") : id \in {0, 1}, name \in {"", "Jane Doe"} }
RepoIDs == {1, 2, 999}
DatabaseErrors == {"", ErrUserNotFound, "connection lost"}

\* what a service call leaves behind for the caller
Returned(op, id, user, text, err) ==
  /\ svcCall' = [op |-> op, id |-> id, user |-> user, text |-> text, err |-> err]
  /\ UNCHANGED <<viperVars, calcVars, userVars, storeVars, todoVars>>

\* mutant of NotifyUser: the email is sent whatever ValidateEmail returned
NotifyUserSendsAnyway ==
  \E email \in Emails, message \in Messages, accepted \in BOOLEAN, sent \in SendErrors :
    /\ mockCalls' =
         <<EmailCall("ValidateEmail", email, "", "", IF accepted THEN "true" ELSE "false"),
           EmailCall("SendEmail", email, "Notification", message, sent)>>
    /\ Returned("NotifyUser", 0, User(0, "", email), message, sent)

NotifyUser ==
  \E email \in Emails, message \in Messages, accepted \in BOOLEAN, sent \in SendErrors :
    IF ~accepted
      THEN /\ mockCalls' = <<EmailCall("ValidateEmail", email, "", "", "false")>>
           /\ Returned("NotifyUser", 0, User(0, "", email), message, ErrInvalidEmail)
      ELSE /\ mockCalls' =
                <<EmailCall("ValidateEmail", email, "", "", "true"),
                  EmailCall("SendEmail", email, "Notification", message, sent)>>
           /\ Returned("NotifyUser", 0, User(0, "", email), message, sent)

SendWelcomeEmail ==
  \E email \in Emails, name \in {"", "John Doe"}, accepted \in BOOLEAN,
     sent \in SendErrors :
    \E user \in {User(1, name, email)} :
      IF ~accepted
        THEN /\ mockCalls' = <<EmailCall("ValidateEmail", user.Email, "", "", "false")>>
             /\ Returned("SendWelcomeEmail", 0, user, "", ErrInvalidEmail)
        ELSE /\ mockCalls' =
                  <<EmailCall("ValidateEmail", user.Email, "", "", "true"),
                    EmailCall("SendEmail", user.Email, "Welcome!",
                              "Welcome to our service, " \o user.Name \o "!", sent)>>
             /\ Returned("SendWelcomeEmail", 0, user, "", sent)

FindUser ==
  \E id \in RepoIDs, got \in DatabaseErrors :
    /\ mockCalls' = <<DatabaseCall("GetUser", id, NoUser, got)>>
    /\ Returned("FindUser", id, NoUser, "", got)

CreateUser ==
  \E user \in RepoUsers, saved \in DatabaseErrors :
    IF user.Name = ""
      THEN /\ mockCalls' = <<>>
           /\ Returned("CreateUser", 0, user, "", ErrNameRequired)
      ELSE /\ mockCalls' = <<DatabaseCall("SaveUser", 0, user, saved)>>
           /\ Returned("CreateUser", 0, user, "", saved)

\* mutant of RemoveUser: the error of GetUser is ignored
RemoveUserIgnoresGetUser ==
  \E id \in RepoIDs, got \in DatabaseErrors, deleted \in DatabaseErrors :
    /\ mockCalls' = <<DatabaseCall("GetUser", id, NoUser, got),
                      DatabaseCall("DeleteUser", id, NoUser, deleted)>>
    /\ Returned("RemoveUser", id, NoUser, "", deleted)

RemoveUser ==
  \E id \in RepoIDs, got \in DatabaseErrors, deleted \in DatabaseErrors :
    IF got /= ""
      THEN /\ mockCalls' = <<DatabaseCall("GetUser", id, NoUser, got)>>
           /\ Returned("RemoveUser", id, NoUser, "", got)
      ELSE /\ mockCalls' = <<DatabaseCall("GetUser", id, NoUser, ""),
                             DatabaseCall("DeleteUser", id, NoUser, deleted)>>
           /\ Returned("RemoveUser", id, NoUser, "", deleted)

InitServices == InitCalc

NextServices ==
  \/ NotifyUser
  \/ SendWelcomeEmail
  \/ FindUser
  \/ CreateUser
  \/ RemoveUser

SpecServices == InitServices /\ [][NextServices]_vars


(***************************************************************************)
(* The in-memory user stores of the Echo and HTTPRouter demo servers.  Both *)
(* number a new record len(users) + 1 and delete the first record with the  *)
(* requested ID; Echo refuses a user without name or email, HTTPRouter      *)
(* stores what the request body decodes to.  The product stores have the    *)
(* same two handlers.                                                       *)
(***************************************************************************)
\* the decoded request bodies, and the IDs of the request paths
NewUsers == { User(0, name, "new@example.com") : name \in {"", "New User"} }

PathIDs == 1..(MaxRecords + 1)

\* the slice without its first record with the ID id
RemoveFirst(us, id) ==
  SubSeq(us, 1, IndexOfID(us, id) - 1) \o SubSeq(us, IndexOfID(us, id) + 1, Len(us))

EchoCreateUser ==
  /\ Len(echoUsers) < MaxRecords
  /\ \E newUser \in NewUsers :
       echoUsers' = IF newUser.Name = "" \/ newUser.Email = "" THEN echoUsers
                    ELSE Append(echoUsers, [newUser EXCEPT !.ID = Len(echoUsers) + 1])
  /\ UNCHANGED <<viperVars, calcVars, userVars, mockVars, routerUsers, todoVars>>

EchoDeleteUser ==
  /\ \E id \in PathIDs :
       echoUsers' = IF IndexOfID(echoUsers, id) = 0 THEN echoUsers
                    ELSE RemoveFirst(echoUsers, id)
  /\ UNCHANGED <<viperVars, calcVars, userVars, mockVars, routerUsers, todoVars>>

RouterCreateUser ==
  /\ Len(routerUsers) < MaxRecords
  /\ \E newUser \in NewUsers :
       routerUsers' = Append(routerUsers, [newUser EXCEPT !.ID = Len(routerUsers) + 1])
  /\ UNCHANGED <<viperVars, calcVars, userVars, mockVars, echoUsers, todoVars>>

RouterDeleteUser ==
  /\ \E id \in PathIDs :
       routerUsers' = IF IndexOfID(routerUsers, id) = 0 THEN routerUsers
                      ELSE RemoveFirst(routerUsers, id)
  /\ UNCHANGED <<viperVars, calcVars, userVars, mockVars, echoUsers, todoVars>>

InitStores == InitCalc

NextStores ==
  \/ EchoCreateUser
  \/ EchoDeleteUser
  \/ RouterCreateUser
  \/ RouterDeleteUser

SpecStores == InitStores /\ [][NextStores]_vars


(***************************************************************************)
(* The Templ todo server.  net/http runs every request in its own goroutine *)
(* and the handlers use the package-level todos and nextID without a lock,  *)
(* so createTodoHandler is modelled one memory access at a step: it reads   *)
(* nextID for the new todo, reads todos, writes the appended slice back,    *)
(* reads nextID again and writes it back incremented.                       *)
(***************************************************************************)
TodoTexts == {"", "Buy milk", "Call Bob"}

TodoStep(h, next) ==
  /\ handlers' = [handlers EXCEPT ![h] = next]
  /\ UNCHANGED <<viperVars, calcVars, userVars, mockVars, storeVars>>

createTodoHandler(h) ==
  \/ /\ handlers[h].pc = "idle"
     /\ requests.created < MaxCreates
     /\ \E text \in TodoTexts :
          IF text = ""
            THEN UNCHANGED vars
            ELSE /\ TodoStep(h, [handlers[h] EXCEPT !.pc = "todo", !.text = text])
                 /\ requests' = [requests EXCEPT !.created = @ + 1]
                 /\ UNCHANGED <<todos, nextID>>
  \/ /\ handlers[h].pc = "todo"
     /\ TodoStep(h, [handlers[h] EXCEPT !.pc = "append", !.id = nextID])
     /\ UNCHANGED <<todos, nextID, requests>>
  \/ /\ handlers[h].pc = "append"
     /\ TodoStep(h, [handlers[h] EXCEPT !.pc = "store", !.slice = todos])
     /\ UNCHANGED <<todos, nextID, requests>>
  \/ /\ handlers[h].pc = "store"
     /\ todos' = Append(handlers[h].slice, Todo(handlers[h].id, handlers[h].text))
     /\ TodoStep(h, [handlers[h] EXCEPT !.pc = "increment"])
     /\ UNCHANGED <<nextID, requests>>
  \/ /\ handlers[h].pc = "increment"
     /\ TodoStep(h, [handlers[h] EXCEPT !.pc = "write", !.n = nextID])
     /\ UNCHANGED <<todos, nextID, requests>>
  \/ /\ handlers[h].pc = "write"
     /\ nextID' = handlers[h].n + 1
     /\ TodoStep(h, IdleHandler)
     /\ UNCHANGED <<todos, requests>>

\* a delete request handled while no create request is in progress
deleteTodoHandler ==
  /\ \A h \in Handlers : handlers[h].pc = "idle"
  /\ \E id \in 1..(4 + MaxCreates) :
       IF IndexOfID(todos, id) = 0
         THEN UNCHANGED vars
         ELSE /\ todos' = RemoveFirst(todos, id)
              /\ requests' = [requests EXCEPT !.deleted = @ + 1]
              /\ UNCHANGED <<viperVars, calcVars, userVars, mockVars, storeVars,
                             nextID, handlers>>

InitTodos == InitCalc

NextTodos ==
  \/ \E h \in Handlers : createTodoHandler(h)
  \/ deleteTodoHandler

SpecTodos == InitTodos /\ [][NextTodos]_vars


(***************************************************************************)
(* Properties                                                              *)
(***************************************************************************)
\* initConfig has decoded a configuration and the process goes on
Resolved == pc \in {"ready", "exit", "watch_started", "watching"}

\* the environment layer of the run as a key/value map: the keys whose
\* variable is set to a non-empty value
EnvLayer ==
  [key \in {x \in Fields \cup FlagNames : EnvDefines(x, env)} |-> VStr(env[EnvNameOf[key]])]

\* the four layers, highest precedence first
LayersByPrecedence == <<flags, EnvLayer, vconfig, Defaults>>

RECURSIVE FirstDefining(_, _, _)
FirstDefining(layers, i, key) ==
  IF key \in DOMAIN layers[i] THEN layers[i][key] ELSE FirstDefining(layers, i + 1, key)

\* The precedence order among the layers as the library keys them: after
\* startup every field holds the (decoded) value of the first of flags,
\* environment, file, defaults that defines its key, where a flag defines the
\* key equal to its flag name and an environment variable defines its key
\* only when its value is non-empty.
C1_PrecedenceOrder ==
  Resolved =>
    \A key \in Fields :
      config[key] = Decode(FieldType[key], FirstDefining(LayersByPrecedence, 1, key)).v

\* defaults 8080, file 9000, VIPERAPP_SERVER_PORT=9500, no flag: 9500
C1_Witness ==
  /\ pc = "ready"
  /\ "server.port" \notin DOMAIN flags
  /\ "server.port" \in DOMAIN vconfig /\ vconfig["server.port"] = VInt(9000)
  /\ "VIPERAPP_SERVER_PORT" \in DOMAIN env /\ env["VIPERAPP_SERVER_PORT"] = "9500"
  /\ config["server.port"] = VInt(9500)

\* the flags layer as the caller populated it: every explicitly passed
\* per-field flag defines the field it is declared to override
FlagField(fl) ==
  CASE fl = "features.enable-metrics" -> "features.enable_metrics"
    [] fl = "features.beta-features"  -> "features.beta_features"
    [] OTHER -> fl

FlagsLayerByField ==
  [key \in { FlagField(fl) : fl \in DOMAIN flags } |->
     flags[CHOOSE fl \in DOMAIN flags : FlagField(fl) = key]]

\* C1: for every configuration key and every combination of populated and
\* empty layers, the resolved value is the (decoded) value of the
\* highest-precedence layer that defines the key, in the order
\* flags > environment > file > defaults (an environment variable set to the
\* empty string is taken not to define its key).
C1_PrecedenceEveryKey ==
  Resolved =>
    \A key \in Fields :
      \E d \in { Decode(FieldType[key],
                         FirstDefining(<<FlagsLayerByField, EnvLayer,
                                         vconfig, Defaults>>, 1, key)) } :
        d.ok /\ config[key] = d.v

\* the configurations a complete resolution of some file layer produces
FileLayers == {EmptyLayer} \cup { c.data : c \in DiskChoices }

WholeResolutions ==
  { r.cfg : r \in { x \in { Unmarshal(ZeroConfig, flags, env, d) : d \in FileLayers } :
                      ~x.err } }

\* C2: when a watch cycle's re-resolution fails (the file does not parse, or
\* a value does not decode), the configuration after the cycle is exactly the
\* configuration before it.
C2_FailedReloadKeepsConfig ==
  (cycle.invoked /\ (cycle.readErr \/ cycle.decodeErr)) => config = cycle.old

\* C3: during a watch the configuration is always one whole resolution:
\* never some fields from one file content and others from another.
C3_ConfigIsWholeResolution ==
  pc \in {"watch_started", "watching"} => config \in WholeResolutions

\* C4: a flag that was not passed never masks the environment or the file:
\* the field holds the environment's value if the environment defines the key,
\* else the file's value if the file defines it.
C4_FlagDefaultsDoNotMask ==
  Resolved =>
    \A key \in (FlagNames \cap Fields) \ DOMAIN flags :
      /\ EnvDefines(key, env) =>
           config[key] = Decode(FieldType[key], VStr(env[EnvNameOf[key]])).v
      /\ (~EnvDefines(key, env) /\ key \in DOMAIN vconfig) =>
           config[key] = Decode(FieldType[key], vconfig[key]).v

\* no flag passed, the file sets database.host: the flag default "localhost"
\* does not win
C4_Witness ==
  /\ pc = "ready"
  /\ DOMAIN flags = {}
  /\ "database.host" \in DOMAIN vconfig
  /\ config["database.host"] = VStr("db.file")
  /\ FlagDefault["database.host"] = VStr("localhost")

\* C5: every per-field flag that was explicitly passed sets its field of the
\* resolved configuration to the flag's value.
C5_PassedFlagsSetFields ==
  Resolved => \A fl \in DOMAIN flags : config[FlagField(fl)] = flags[fl]

\* C6: with empty file, environment and flags layers every field of the
\* typed shape has a default and holds that default, decoded.
C6_DefaultsExhaustive ==
  (/\ Resolved
   /\ DOMAIN flags = {}
   /\ DOMAIN vconfig = {}
   /\ \A key \in Fields : ~EnvDefines(key, env))
  => \A f \in Fields :
       /\ f \in DOMAIN Defaults
       /\ Decode(FieldType[f], Defaults[f]).ok
       /\ config[f] = Decode(FieldType[f], Defaults[f]).v

C6_Witness ==
  /\ pc = "ready"
  /\ disk = NoFile /\ DOMAIN flags = {} /\ DOMAIN env = {}
  /\ config["redis.pool_size"] = VInt(10)
  /\ config["server.read_timeout"] = VDur(30)
  /\ config["security.cors_origins"] = VList(<<"http://localhost:3000">>)

\* C7: nothing a command prints contains the full raw value of a non-empty
\* secret field.
C7_NoRawSecretInOutput ==
  \A tok \in output : \A f \in SecretFields :
    config[f].s /= "" => ~Contains(tok.text, config[f].s)


\* out has one character per character of str: an asterisk everywhere when
\* str has at most 4 characters, otherwise the first two and the last two
\* characters of str with asterisks between them
MaskedAsClaimed(str, out) ==
  /\ Len(out) = Len(str)
  /\ \A i \in 1..Len(str) :
       CharAt(out, i) =
         IF Len(str) <= 4 \/ (i > 2 /\ i <= Len(str) - 2) THEN "*" ELSE CharAt(str, i)

\* C8 as stated: the rendering of EVERY secret string is as claimed,
\* the empty string included (zero asterisks).
C8_MaskEveryString ==
  pc = "masked" =>
    MaskedAsClaimed(maskIn, maskOut) /\ MaskedAsClaimed(maskIn, maskOutEnv)

\* C8 amended: the rendering of every NON-EMPTY secret string is as claimed
\* (lengths and positions counted in bytes); the empty string is rendered as
\* a placeholder text, "(empty)" in the Viper demo and "<empty>" in the GoDotEnv demo.
C8_MaskNonEmptyString ==
  pc = "masked" =>
    IF maskIn = ""
      THEN maskOut = "(empty)" /\ maskOutEnv = "<empty>"
      ELSE MaskedAsClaimed(maskIn, maskOut) /\ MaskedAsClaimed(maskIn, maskOutEnv)

C8_Witness ==
  /\ pc = "masked"
  /\ maskIn = "pw1pw1"
  /\ maskOut = "pw**w1"

InRange(x, lo, hi) == lo <= x /\ x <= hi

\* the validation rules, each with whether the configuration satisfies it
\* and the violation reported for it
Rules(cfg) ==
  { [ok |-> InRange(cfg["server.port"].n, 1, 65535), issue |-> IssueServerPort],
    [ok |-> InRange(cfg["database.port"].n, 1, 65535), issue |-> IssueDatabasePort],
    [ok |-> InRange(cfg["redis.port"].n, 1, 65535), issue |-> IssueRedisPort],
    [ok |-> cfg["server.max_connections"].n >= 1, issue |-> IssueServerMaxConn],
    [ok |-> cfg["database.max_connections"].n >= 1, issue |-> IssueDatabaseMaxConn],
    [ok |-> (cfg["server.tls.enabled"] = VBool(TRUE)
               => (cfg["server.tls.cert_file"].s /= "" /\ cfg["server.tls.key_file"].s /= "")),
     issue |-> IssueTLS],
    [ok |-> InRange(cfg["redis.database"].n, 0, 15), issue |-> IssueRedisDatabase],
    [ok |-> \E lv \in {"debug", "info", "warn", "error", "fatal"} :
              ToLower(cfg["logging.level"].s) = lv,
     issue |-> IssueLogLevel],
    [ok |-> cfg["security.rate_limit_rps"].n >= 1, issue |-> IssueRateLimit],
    [ok |-> Len(cfg["security.jwt_secret"].s) >= 32, issue |-> IssueJWTSecret] }

Occurrences(q, x) == Cardinality({ i \in 1..Len(q) : q[i] = x })

\* C9: the reported list holds exactly one entry for each violated rule,
\* none for a satisfied rule and nothing else, however many rules fail.
C9_OneIssuePerViolatedRule ==
  command = "validate" =>
    /\ \A r \in Rules(config) :
         Occurrences(issues, r.issue) = IF r.ok THEN 0 ELSE 1
    /\ \A i \in 1..Len(issues) : \E r \in Rules(config) : r.issue = issues[i]
    /\ valid = (issues = <<>>)

\* server.port = 70000 together with other defects: all of them are reported
C9_Witness ==
  /\ command = "validate"
  /\ config["server.port"] = VInt(70000)
  /\ Len(issues) >= 3
  /\ issues[1] = IssueServerPort

\* C10: validation reports the JWT-secret violation, which names the secret
\* and the number 32, exactly when the secret is shorter than 32.
C10_JWTSecretMinLength ==
  command = "validate" =>
    /\ (\E i \in 1..Len(issues) : issues[i] = IssueJWTSecret)
         <=> Len(config["security.jwt_secret"].s) < 32
    /\ Contains(IssueJWTSecret, "jwt_secret") /\ Contains(IssueJWTSecret, "32")

C10_Witness ==
  /\ command = "validate"
  /\ config["security.jwt_secret"] = VStr("short")
  /\ issues = <<IssueJWTSecret>>

\* C11: the validate sub-command ends with exit code 0 exactly when the
\* violation list is empty, and with a nonzero exit code otherwise.
C11_ValidateExitCode ==
  (command = "validate" /\ pc = "exit") => (exitCode = 0 <=> issues = <<>>)

\* C12: when the watched file is edited into a file that does not parse, the
\* change handler is not invoked for that notification.
C12_NoHandlerOnParseError ==
  (cycle.readErr /\ disk = MalformedFile) => ~cycle.invoked

\* the watcher is fully set up, the active configuration is the resolution
\* of the loaded file, whose logging.level is "info", and the file now on
\* disk differs from the loaded one in logging.level = "debug" only
LevelEditPending ==
  /\ pc = "watching"
  /\ pending > 0
  /\ vconfig = FileInfo
  /\ disk = OkFile(FileDebug)
  /\ \A f \in Fields : config[f] = Decode(FieldType[f], Find(f, flags, env, vconfig)).v
  /\ config["logging.level"] = VStr("info")
  /\ ~EnvDefines("logging.level", env)
  /\ "logging.level" \notin DOMAIN flags

C14_OneReloadPerSave ==
  cycle.reads <= edits /\ cycle.calls <= edits

C16_MalformedFileFatal ==
  (disk = MalformedFile /\ pc /= "init") =>
    (pc = "fatal" /\ exitCode > 0 /\ command = "")

\* a raw value that converts to a field of type ty: a number (or a string
\* holding one) for an integer field, a boolean (or a string holding one) for
\* a boolean field, a <number><unit> string for a duration field, a list (or
\* a string) for a list field
Convertible(ty, v) ==
  CASE ty = "int"  -> v.k = "int" \/ (v.k = "str" /\ ParseInt(v.s).ok)
    [] ty = "bool" -> v.k = "bool" \/ (v.k = "str" /\ ParseBool(v.s).ok)
    [] ty = "dur"  -> v.k = "str" /\ ParseDuration(v.s).ok
    [] ty = "str"  -> v.k \in {"str", "int", "bool"}
    [] ty = "list" -> v.k \in {"list", "str"}

\* C17: when the merged value of some key does not convert to its field's
\* type, startup fails with a decode error: the process does not go on, with
\* the field at its zero value or otherwise.
C17_DecodeErrorFatal ==
  (/\ pc /= "init"
   /\ \E key \in Fields :
        ~Convertible(FieldType[key], Find(key, flags, env, vconfig)))
  => (pc = "fatal" /\ exitCode > 0 /\ command = "")

\* the configuration as a function of the four layers alone
ResolvedFrom(fl, en, vc, df) ==
  [f \in Fields |->
     Decode(FieldType[f],
            FirstDefining(<<fl,
                            [key \in {x \in Fields \cup FlagNames : EnvDefines(x, en)} |->
                               VStr(en[EnvNameOf[key]])],
                            vc, df>>, 1, f)).v]

\* C18: a resolution that succeeds yields a configuration that depends on the
\* contents of the four layers only: at startup and after every reload of a
\* watch, whatever was resolved before and however often, the configuration
\* is the same function of flags, environment, loaded file and defaults; so
\* resolving the same layers again yields the identical configuration.
C18_ResolutionDependsOnLayersOnly ==
  (\/ pc \in {"ready", "exit"}
   \/ (pc = "watching" /\ cycle.invoked /\ ~cycle.decodeErr))
  => config = ResolvedFrom(flags, env, vconfig, Defaults)

\* one save handled as two notifications: the same layers were resolved
\* twice, with the identical result
C18_Witness ==
  /\ pc = "watching" /\ edits = 1
  /\ cycle.calls = 2 /\ cycle.updated
  /\ vconfig = FileDebug
  /\ config["logging.level"] = VStr("debug")
  /\ cycle.old = config

C20_MemoryIsLastResult ==
  /\ memory = lastResult
  /\ calcOp = "GetMemory" => calcRet = lastResult
  /\ calcErr => calcOp \in {"Divide", "Sqrt"}

\* Multiply stored 9, then Divide by 0 was refused: the memory is still 9
C20_Witness ==
  /\ calcOp = "Divide" /\ calcErr /\ calcRet = 0
  /\ memory = 9

\* the leaf fields of Config that hold one scalar (all but the list)
ScalarFields == { f \in Fields : FieldType[f] /= "list" }

\* C25: on a successful reload the diff of the change handler lists every
\* leaf scalar field whose value differs between the old and the new
\* configuration, and no field whose value is equal in both.
C25_DiffListsEveryChangedField ==
  (pc = "watching" /\ cycle.invoked /\ cycle.updated /\ ~cycle.readErr) =>
    { cycle.diff[i] : i \in 1..Len(cycle.diff) } =
      { f \in ScalarFields : cycle.old[f] /= config[f] }

\* C26: after the change handler has reloaded the edited file, every key set
\* by an explicitly passed flag still holds the flag's value, every other key
\* set by the environment holds the environment's value, and every key set by
\* neither and absent from the new file holds its default.
C26_ReloadRefreshesFileLayerOnly ==
  (/\ pc = "watching" /\ pending = 0
   /\ cycle.invoked /\ cycle.updated /\ ~cycle.readErr) =>
    \A key \in Fields :
      IF key \in DOMAIN FlagsLayerByField
        THEN config[key] = Decode(FieldType[key], FlagsLayerByField[key]).v
      ELSE IF key \in DOMAIN EnvLayer
        THEN config[key] = Decode(FieldType[key], EnvLayer[key]).v
      ELSE key \notin DOMAIN disk.data =>
             config[key] = Decode(FieldType[key], Defaults[key]).v

\* C27: validate on the configuration resolved from the built-in defaults
\* alone (no config file, no environment variable, no flag) reports it as
\* valid, with no issue.
C27_DefaultsAreValid ==
  (/\ command = "validate" /\ pc = "exit"
   /\ cfgFile = "" /\ flags = EmptyLayer /\ env = EmptyLayer /\ disk = NoFile)
  => (valid /\ issues = <<>>)

\* C21: AddUser returns an error and leaves the stored list unchanged when the
\* user's name is empty, its email is empty, or a stored user has the same
\* ID; otherwise it returns no error and GetUser with that ID then returns
\* the added user.
C21_AddUserContract ==
  usCall.op = "AddUser" =>
    IF \/ usCall.user.Name = ""
       \/ usCall.user.Email = ""
       \/ \E i \in 1..Len(usersBefore) : usersBefore[i].ID = usCall.user.ID
      THEN usCall.err /= "" /\ users = usersBefore
      ELSE /\ usCall.err = ""
           /\ GetUser(users, usCall.user.ID) = [user |-> usCall.user, err |-> ""]

\* AddUser was refused for a complete user whose ID is stored already
C21_Witness ==
  /\ usCall.op = "AddUser"
  /\ usCall.user = User(2, "Ann Lee", "ann@example.com")
  /\ usCall.err = "user with this ID already exists"
  /\ Len(users) = 2 /\ users[2].Name = "Jane Smith"

\* C22: DeleteUser on an existing ID removes exactly that user: the count
\* decreases by one, GetUser for that ID then fails with "user not found", and
\* the other stored users remain, in the same relative order; on an ID that
\* is not stored it returns "user not found" and changes nothing.
C22_DeleteUserContract ==
  usCall.op = "DeleteUser" =>
    IF \E i \in 1..Len(usersBefore) : usersBefore[i].ID = usCall.id
      THEN /\ usCall.err = ""
           /\ Len(users) = Len(usersBefore) - 1
           /\ GetUser(users, usCall.id).err = ErrUserNotFound
           /\ users = SelectSeq(usersBefore, LAMBDA u : u.ID /= usCall.id)
      ELSE usCall.err = ErrUserNotFound /\ users = usersBefore

\* the first of three users was deleted: the two behind it remain, in order
C22_Witness ==
  /\ usCall.op = "DeleteUser" /\ usCall.id = 1 /\ usCall.err = ""
  /\ Len(usersBefore) = 3
  /\ Len(users) = 2 /\ users[1].ID = 2 /\ users[2].ID = 3

\* C28: after any sequence of AddUser, UpdateUser and DeleteUser calls no two
\* stored users share an ID, and UpdateUser(id, u) stores u under the ID id,
\* whatever ID u carries.
C28_UniqueUserIDs ==
  /\ \A i, j \in 1..Len(users) : i /= j => users[i].ID /= users[j].ID
  /\ (usCall.op = "UpdateUser" /\ usCall.err = "") =>
       GetUser(users, usCall.id) =
         [user |-> [usCall.user EXCEPT !.ID = usCall.id], err |-> ""]

\* UpdateUser(1, u) with u carrying the ID 2 of another stored user
C28_Witness ==
  /\ usCall.op = "UpdateUser" /\ usCall.err = ""
  /\ usCall.id = 1 /\ usCall.user.ID = 2
  /\ \E i, j \in 1..Len(users) : users[i].ID = 1 /\ users[i].Name = "Ann Lee" /\ users[j].ID = 2

\* the positions in mockCalls of the calls of a method
CallsOf(method) == { i \in 1..Len(mockCalls) : mockCalls[i].method = method }

\* C23: NotifyUser and SendWelcomeEmail call SendEmail at most once, and only
\* after ValidateEmail was called on the same address and returned true; when
\* ValidateEmail returns false they return "invalid email address" and never
\* call SendEmail; what SendEmail returns is returned to the caller.
C23_SendOnlyAfterValidation ==
  svcCall.op \in {"NotifyUser", "SendWelcomeEmail"} =>
    /\ Cardinality(CallsOf("SendEmail")) <= 1
    /\ \A i \in CallsOf("SendEmail") :
         /\ \E j \in CallsOf("ValidateEmail") :
              /\ j < i
              /\ mockCalls[j].to = mockCalls[i].to
              /\ mockCalls[j].ret = "true"
         /\ mockCalls[i].to = svcCall.user.Email
         /\ svcCall.err = mockCalls[i].ret
    /\ (\E j \in CallsOf("ValidateEmail") : mockCalls[j].ret = "false") =>
         (CallsOf("SendEmail") = {} /\ svcCall.err = ErrInvalidEmail)

\* SendWelcomeEmail on a validated address whose SendEmail failed
C23_Witness ==
  /\ svcCall.op = "SendWelcomeEmail"
  /\ svcCall.err = "SMTP error"
  /\ Len(mockCalls) = 2
  /\ mockCalls[1].method = "ValidateEmail" /\ mockCalls[1].ret = "true"
  /\ mockCalls[2].method = "SendEmail" /\ mockCalls[2].to = "john@example.com"
  /\ mockCalls[2].body = "Welcome to our service, John Doe!"

\* C24: CreateUser with an empty name returns "name is required" without
\* calling Database.SaveUser; RemoveUser calls Database.GetUser first, calls
\* Database.DeleteUser only if GetUser succeeded, and returns GetUser's error
\* otherwise.
C24_NoWritePastFailedPrecondition ==
  /\ (svcCall.op = "CreateUser" /\ svcCall.user.Name = "") =>
       (svcCall.err = ErrNameRequired /\ CallsOf("SaveUser") = {})
  /\ svcCall.op = "RemoveUser" =>
       /\ Len(mockCalls) >= 1
       /\ mockCalls[1].method = "GetUser" /\ mockCalls[1].id = svcCall.id
       /\ \A i \in CallsOf("DeleteUser") : mockCalls[1].ret = "" /\ i > 1
       /\ mockCalls[1].ret /= "" =>
            (svcCall.err = mockCalls[1].ret /\ CallsOf("DeleteUser") = {})

\* RemoveUser(999) on a database that does not hold the user
C24_Witness ==
  /\ svcCall.op = "RemoveUser" /\ svcCall.id = 999
  /\ svcCall.err = ErrUserNotFound
  /\ Len(mockCalls) = 1 /\ mockCalls[1].method = "GetUser"

\* no two records of the store share an ID
UniqueIDs(us) == \A i, j \in 1..Len(us) : i /= j => us[i].ID /= us[j].ID

\* C29: in the Echo and HTTPRouter demo servers, after any sequence of create
\* and delete requests no two stored users share an ID.
C29_UniqueRecordIDs == UniqueIDs(echoUsers) /\ UniqueIDs(routerUsers)

\* C30: when two create-todo requests are handled concurrently, both todos
\* end up stored and they receive distinct IDs: no two stored todos share an
\* ID, and once the handlers have returned the store holds the four initial
\* todos and every todo created, less the todos deleted.
C30_ConcurrentCreatesKeepBoth ==
  /\ UniqueIDs(todos)
  /\ (\A h \in Handlers : handlers[h].pc = "idle") =>
       Len(todos) = 4 + requests.created - requests.deleted

====
